---- MODULE Spec2Model ----
(***************************************************************************)
(* Model of code_analyzer.py: the ignore-pattern resolver, the test-file   *)
(* classifier, the comment stripper and the aggregator of analyze_project. *)
(* Text is modelled as sequences of one-character strings, so that the     *)
(* regular expressions and globs of the source are computed, not assumed.  *)
(***************************************************************************)
EXTENDS Integers, Sequences, FiniteSets, TLC

VARIABLES
    \* load_ignore_patterns / should_ignore_file
    root_files,       \* names of the files lying directly in the project root
    override,         \* the .codeanalyzerignore file: missing, unreadable or its lines
    ignore_patterns,  \* the set load_ignore_patterns returned
    load_pc,          \* "start", "loaded" or "raised"
    ig_file,          \* the last path handed to should_ignore_file (segments below the root)
    ig_result,        \* what should_ignore_file returned for it
    \* is_test_file
    cl_path,          \* file_path, as its os.sep-separated parts
    cl_result,        \* what is_test_file returned
    cl_pc,            \* "start" or "done"
    \* analyze_file
    af_file,          \* the file handed to analyze_file
    af_loc,           \* the loc it returned
    af_tokens,        \* the token count it returned
    af_pc,            \* "start" or "done"
    \* analyze_project
    tree,             \* which collection of files the walk enumerates
    project_path,     \* the analysed root, as path parts
    stats,            \* stats[category]: the running CategoryStats
    folded,           \* history: the records folded into each category, in order
    root_dir,         \* the directory os.walk is in, as parts below the root
    dirs_left,        \* the directories os.walk has not yielded yet
    outcomes,         \* history: what became of each file the walk yielded
    last              \* the last file the walk yielded

vars == <<root_files, override, ignore_patterns, load_pc, ig_file, ig_result,
          cl_path, cl_result, cl_pc, af_file, af_loc, af_tokens, af_pc,
          tree, project_path, stats, folded, root_dir, dirs_left,
          outcomes, last>>

ignoreVars == <<root_files, override, ignore_patterns, load_pc, ig_file, ig_result>>
classifyVars == <<cl_path, cl_result, cl_pc>>
fileVars == <<af_file, af_loc, af_tokens, af_pc>>
walkVars == <<tree, stats, folded, root_dir, dirs_left, outcomes, last>>

-----------------------------------------------------------------------------
(* Text helpers: Python's str methods on sequences of characters.           *)

Whitespace == {" ", "\t", "\n", "\r"}

Last(s) == s[Len(s)]

RECURSIVE LStrip(_)
LStrip(s) == IF s # <<>> /\ Head(s) \in Whitespace THEN LStrip(Tail(s)) ELSE s

RECURSIVE RStrip(_)
RStrip(s) ==
    IF s # <<>> /\ Last(s) \in Whitespace THEN RStrip(SubSeq(s, 1, Len(s) - 1)) ELSE s

\* str.strip()
Strip(s) == RStrip(LStrip(s))

\* str.startswith(prefix, i): prefix occurs in s at index i
StartsAt(s, i, prefix) ==
    /\ i >= 1
    /\ i + Len(prefix) - 1 <= Len(s)
    /\ \A k \in 1..Len(prefix) : s[i + k - 1] = prefix[k]

\* sep.join(parts)
RECURSIVE Join(_, _)
Join(parts, sep) ==
    IF parts = <<>> THEN <<>>
    ELSE IF Len(parts) = 1 THEN parts[1]
    ELSE parts[1] \o sep \o Join(Tail(parts), sep)

\* str.split(sep) for a one-character separator: always at least one piece
RECURSIVE SplitFrom(_, _, _, _)
SplitFrom(s, sep, i, piece) ==
    IF i > Len(s) THEN <<piece>>
    ELSE IF s[i] = sep THEN <<piece>> \o SplitFrom(s, sep, i + 1, <<>>)
    ELSE SplitFrom(s, sep, i + 1, Append(piece, s[i]))

Split(s, sep) == SplitFrom(s, sep, 1, <<>>)

UpperCase == <<"A", "B", "C", "D", "E", "F", "G", "H", "I", "J", "K", "L", "M", "N", "O", "P", "Q", "R", "S", "T", "U", "V", "W", "X", "Y", "Z">>
LowerCase == <<"a", "b", "c", "d", "e", "f", "g", "h", "i", "j", "k", "l", "m", "n", "o", "p", "q", "r", "s", "t", "u", "v", "w", "x", "y", "z">>

\* re.IGNORECASE compares characters after case folding
LowerOf ==
    [c \in { UpperCase[i] : i \in 1..Len(UpperCase) } |->
        LowerCase[CHOOSE i \in 1..Len(UpperCase) : UpperCase[i] = c]]

Lower(c) == IF c \in DOMAIN LowerOf THEN LowerOf[c] ELSE c

LowerAll(s) == [i \in 1..Len(s) |-> Lower(s[i])]

\* the characters of the model in code-point order, for [a-z] ranges
AsciiOrder == <<" ", "!", "#", "(", ")", "*", "-", ".", "/", "0", "1", "2", "3", "4", "5", "6", "7", "8", "9", ";", "?", "A", "B", "C", "D", "E", "F", "G", "H", "I", "J", "K", "L", "M", "N", "O", "P", "Q", "R", "S", "T", "U", "V", "W", "X", "Y", "Z", "[", "]", "_", "a", "b", "c", "d", "e", "f", "g", "h", "i", "j", "k", "l", "m", "n", "o", "p", "q", "r", "s", "t", "u", "v", "w", "x", "y", "z">>

Ord(c) == CHOOSE i \in 1..Len(AsciiOrder) : AsciiOrder[i] = c

-----------------------------------------------------------------------------
(* fnmatch.fnmatch on POSIX: *, ?, [seq], [!seq]; * and ? also match "/".   *)

\* index of the "]" closing the class opened at p[j], or 0 when there is none
ClassEnd(p, j) ==
    LET k1 == IF j + 1 <= Len(p) /\ p[j + 1] = "!" THEN j + 2 ELSE j + 1
        k2 == IF k1 <= Len(p) /\ p[k1] = "]" THEN k1 + 1 ELSE k1
        closing == {k \in k2..Len(p) : p[k] = "]"}
    IN  IF closing = {} THEN 0
        ELSE CHOOSE k \in closing : \A m \in closing : k <= m

RECURSIVE ClassHas(_, _, _)
ClassHas(c, body, k) ==
    IF k > Len(body) THEN FALSE
    ELSE IF k + 2 <= Len(body) /\ body[k + 1] = "-"
         THEN \/ (Ord(body[k]) <= Ord(c) /\ Ord(c) <= Ord(body[k + 2]))
              \/ ClassHas(c, body, k + 3)
         ELSE body[k] = c \/ ClassHas(c, body, k + 1)

InClass(c, p, j, e) ==
    LET stuff == SubSeq(p, j + 1, e - 1)
    IN  IF stuff[1] = "!" THEN ~ClassHas(c, Tail(stuff), 1)
        ELSE ClassHas(c, stuff, 1)

RECURSIVE GlobFrom(_, _, _, _)
GlobFrom(s, i, p, j) ==
    IF j > Len(p) THEN i > Len(s)
    ELSE IF p[j] = "*"
         THEN \E k \in i..(Len(s) + 1) : GlobFrom(s, k, p, j + 1)
    ELSE IF p[j] = "?"
         THEN i <= Len(s) /\ GlobFrom(s, i + 1, p, j + 1)
    ELSE IF p[j] = "[" /\ ClassEnd(p, j) # 0
         THEN /\ i <= Len(s)
              /\ InClass(s[i], p, j, ClassEnd(p, j))
              /\ GlobFrom(s, i + 1, p, ClassEnd(p, j) + 1)
    ELSE i <= Len(s) /\ s[i] = p[j] /\ GlobFrom(s, i + 1, p, j + 1)

Fnmatch(name, pat) == GlobFrom(name, 1, pat, 1)

-----------------------------------------------------------------------------
(* DEFAULT_IGNORE_PATTERNS                                                   *)

CommonPatterns ==
    { <<"*", ".", "m", "i", "n", ".", "j", "s">>, <<"*", ".", "m", "i", "n", ".", "c", "s", "s">>, <<"*", ".", "m", "a", "p">>, <<"*", ".", "l", "o", "c", "k">>, <<"*", ".", "l", "o", "g">>, <<"*", ".", "p", "o", "t">>,
      <<"*", ".", "m", "o">>, <<"*", ".", "p", "y", "c">>, <<"_", "_", "p", "y", "c", "a", "c", "h", "e", "_", "_", "/", "*">>, <<".", "g", "i", "t", "/", "*">>, <<".", "s", "v", "n", "/", "*">>, <<".", "h", "g", "/", "*">>,
      <<".", "D", "S", "_", "S", "t", "o", "r", "e">>, <<"T", "h", "u", "m", "b", "s", ".", "d", "b">> }

NodePatterns ==
    { <<"p", "a", "c", "k", "a", "g", "e", "-", "l", "o", "c", "k", ".", "j", "s", "o", "n">>, <<"y", "a", "r", "n", ".", "l", "o", "c", "k">>, <<"p", "n", "p", "m", "-", "l", "o", "c", "k", ".", "y", "a", "m", "l">>, <<"n", "o", "d", "e", "_", "m", "o", "d", "u", "l", "e", "s", "/", "*">>,
      <<"b", "o", "w", "e", "r", "_", "c", "o", "m", "p", "o", "n", "e", "n", "t", "s", "/", "*">>, <<".", "n", "p", "m", "/", "*">>, <<".", "y", "a", "r", "n", "/", "*">>, <<"d", "i", "s", "t", "/", "*">>, <<"b", "u", "i", "l", "d", "/", "*">>,
      <<"c", "o", "v", "e", "r", "a", "g", "e", "/", "*">> }

PythonPatterns ==
    { <<"*", ".", "p", "y", "c">>, <<"*", ".", "p", "y", "o">>, <<"*", ".", "p", "y", "d">>, <<".", "P", "y", "t", "h", "o", "n">>, <<"e", "n", "v", "/", "*">>, <<"v", "e", "n", "v", "/", "*">>, <<".", "e", "n", "v", "/", "*">>,
      <<".", "v", "e", "n", "v", "/", "*">>, <<"p", "i", "p", "-", "l", "o", "g", ".", "t", "x", "t">>, <<"p", "i", "p", "-", "d", "e", "l", "e", "t", "e", "-", "t", "h", "i", "s", "-", "d", "i", "r", "e", "c", "t", "o", "r", "y", ".", "t", "x", "t">>, <<".", "t", "o", "x", "/", "*">>,
      <<".", "c", "o", "v", "e", "r", "a", "g", "e">>, <<".", "c", "o", "v", "e", "r", "a", "g", "e", ".", "*">>, <<"h", "t", "m", "l", "c", "o", "v", "/", "*">>, <<"*", ".", "e", "g", "g", "-", "i", "n", "f", "o", "/", "*">>, <<"d", "i", "s", "t", "/", "*">>,
      <<"b", "u", "i", "l", "d", "/", "*">>, <<"e", "g", "g", "s", "/", "*">>, <<"l", "i", "b", "/", "*">>, <<"l", "i", "b", "6", "4", "/", "*">>, <<"p", "a", "r", "t", "s", "/", "*">>, <<"s", "d", "i", "s", "t", "/", "*">>,
      <<"v", "a", "r", "/", "*">>, <<"*", ".", "e", "g", "g">> }

JavaPatterns ==
    { <<"*", ".", "c", "l", "a", "s", "s">>, <<"*", ".", "j", "a", "r">>, <<"*", ".", "w", "a", "r">>, <<"*", ".", "e", "a", "r">>, <<"*", ".", "n", "a", "r">>, <<"t", "a", "r", "g", "e", "t", "/", "*">>,
      <<".", "g", "r", "a", "d", "l", "e", "/", "*">>, <<"b", "u", "i", "l", "d", "/", "*">>, <<"o", "u", "t", "/", "*">>, <<".", "i", "d", "e", "a", "/", "*">>, <<"*", ".", "i", "m", "l">>, <<"*", ".", "i", "w", "s">>,
      <<"*", ".", "i", "p", "r">>, <<"g", "r", "a", "d", "l", "e", "-", "a", "p", "p", ".", "s", "e", "t", "t", "i", "n", "g">> }

DotnetPatterns ==
    { <<"b", "i", "n", "/", "*">>, <<"o", "b", "j", "/", "*">>, <<"*", ".", "s", "u", "o">>, <<"*", ".", "u", "s", "e", "r">>, <<"*", ".", "u", "s", "e", "r", "o", "s", "s", "c", "a", "c", "h", "e">>,
      <<"*", ".", "s", "l", "n", ".", "d", "o", "c", "s", "t", "a", "t", "e", "s">>, <<"[", "D", "d", "]", "e", "b", "u", "g", "/", "*">>, <<"[", "R", "r", "]", "e", "l", "e", "a", "s", "e", "/", "*">>, <<"x", "6", "4", "/", "*">>, <<"x", "8", "6", "/", "*">>,
      <<"[", "A", "a", "]", "[", "R", "r", "]", "[", "M", "m", "]", "/", "*">>, <<"[", "A", "a", "]", "[", "R", "r", "]", "[", "M", "m", "]", "6", "4", "/", "*">>, <<"b", "l", "d", "/", "*">>, <<"[", "B", "b", "]", "i", "n", "/", "*">>, <<"[", "O", "o", "]", "b", "j", "/", "*">>,
      <<"[", "L", "l", "]", "o", "g", "/", "*">>, <<".", "v", "s", "/", "*">> }

-----------------------------------------------------------------------------
(* load_ignore_patterns                                                      *)

\* os.path.exists(os.path.join(project_path, name))
Exists(files, name) == name \in files

\* glob.glob(os.path.join(project_path, pattern)) is non-empty; glob skips dot files
GlobAny(files, pat) == \E f \in files : Head(f) # "." /\ Fnmatch(f, pat)

DetectedPatterns(files) ==
    UNION { IF Exists(files, <<"p", "a", "c", "k", "a", "g", "e", ".", "j", "s", "o", "n">>) THEN NodePatterns ELSE {},
            IF Exists(files, <<"r", "e", "q", "u", "i", "r", "e", "m", "e", "n", "t", "s", ".", "t", "x", "t">>) \/ Exists(files, <<"s", "e", "t", "u", "p", ".", "p", "y">>)
               THEN PythonPatterns ELSE {},
            IF Exists(files, <<"p", "o", "m", ".", "x", "m", "l">>) \/ Exists(files, <<"b", "u", "i", "l", "d", ".", "g", "r", "a", "d", "l", "e">>)
               THEN JavaPatterns ELSE {},
            IF GlobAny(files, <<"*", ".", "c", "s", "p", "r", "o", "j">>) \/ GlobAny(files, <<"*", ".", "s", "l", "n">>)
               THEN DotnetPatterns ELSE {} }

\* the lines of the override file that become patterns
CustomPatterns(lines) ==
    { Strip(lines[i]) : i \in { k \in 1..Len(lines) :
                                  Strip(lines[k]) # <<>> /\ Head(Strip(lines[k])) # "#" } }

\* the set load_ignore_patterns returns when the override file can be read or is missing
LoadedPatterns(files, ov) ==
    CommonPatterns \cup DetectedPatterns(files)
        \cup (IF ov.kind = "missing" THEN {} ELSE CustomPatterns(ov.lines))

\* open() of an override file that exists but cannot be read raises, and nothing
\* in load_ignore_patterns catches it
LoadRaises(ov) == ov.kind = "unreadable"

-----------------------------------------------------------------------------
(* should_ignore_file                                                        *)

\* os.path.relpath(file_path, base_path) for a file below base_path, as parts
RelParts(file_path, base_path) == SubSeq(file_path, Len(base_path) + 1, Len(file_path))

\* a faulty variant of should_ignore_file: the bare file name is not tried
RelPathOnly(file_path, base_path, patterns) ==
    \E pattern \in patterns : Fnmatch(Join(RelParts(file_path, base_path), <<"/">>), pattern)

ShouldIgnoreFile(file_path, base_path, patterns) ==
    LET rel_path == Join(RelParts(file_path, base_path), <<"/">>)
        basename == Last(Split(rel_path, "/"))
    IN  \E pattern \in patterns :
            Fnmatch(rel_path, pattern) \/ Fnmatch(basename, pattern)

-----------------------------------------------------------------------------
(* test_patterns and is_test_file: re.match(pattern, s, re.IGNORECASE),      *)
(* anchored at the start of s only; "." does not match a newline and "$"     *)
(* matches at the end or before a final newline.                             *)

Separators == {".", "_", "-"}

NoNewline(s, i, j) == \A k \in i..j : s[k] # "\n"

AtDollar(s, i) == i = Len(s) + 1 \/ (i = Len(s) /\ s[i] = "\n")

\* ".*$" can be matched from index i on
DotStarDollar(s, i) ==
    \/ NoNewline(s, i, Len(s))
    \/ (Len(s) >= i /\ s[Len(s)] = "\n" /\ NoNewline(s, i, Len(s) - 1))

\* word followed by an optional "s" at index i; the set of indices after it
AfterPlural(s, i, word) ==
    IF ~StartsAt(s, i, word) THEN {}
    ELSE {i + Len(word)} \cup
         (IF StartsAt(s, i + Len(word), <<"s">>) THEN {i + Len(word) + 1} ELSE {})

\* r'test[s]?$' and r'spec[s]?$'
MatchWord(s, word) == \E e \in AfterPlural(s, 1, word) : AtDollar(s, e)

\* r'__tests?__'
MatchDunder(s) ==
    /\ StartsAt(s, 1, <<"_", "_">>)
    /\ \E e \in AfterPlural(s, 3, <<"t", "e", "s", "t">>) : StartsAt(s, e, <<"_", "_">>)

\* r'.*[._-]tests?[._-].*' and r'.*[._-]specs?[._-].*'
MatchInfix(s, word) ==
    \E i \in 1..Len(s) :
        /\ NoNewline(s, 1, i - 1)
        /\ s[i] \in Separators
        /\ \E e \in AfterPlural(s, i + 1, word) : e <= Len(s) /\ s[e] \in Separators

\* r'test_.*\..*$'
MatchTestPrefix(s) ==
    /\ StartsAt(s, 1, <<"t", "e", "s", "t", "_">>)
    /\ \E j \in 6..Len(s) : s[j] = "." /\ NoNewline(s, 6, j - 1) /\ DotStarDollar(s, j + 1)

\* r'.*_test\..*$'
MatchTestSuffix(s) ==
    \E i \in 1..Len(s) :
        NoNewline(s, 1, i - 1) /\ StartsAt(s, i, <<"_", "t", "e", "s", "t", ".">>) /\ DotStarDollar(s, i + 6)

\* r'.*\.tests?\.'
MatchDotTest(s) ==
    \E i \in 1..Len(s) :
        /\ NoNewline(s, 1, i - 1)
        /\ s[i] = "."
        /\ \E e \in AfterPlural(s, i + 1, <<"t", "e", "s", "t">>) : StartsAt(s, e, <<".">>)

\* r'.*\.spec\.'
MatchDotSpec(s) ==
    \E i \in 1..Len(s) : NoNewline(s, 1, i - 1) /\ StartsAt(s, i, <<".", "s", "p", "e", "c", ".">>)

\* some pattern of test_patterns matches s, ignoring case
MatchesTestPattern(part) ==
    LET s == LowerAll(part)
    IN  \/ MatchWord(s, <<"t", "e", "s", "t">>)
        \/ MatchWord(s, <<"s", "p", "e", "c">>)
        \/ MatchDunder(s)
        \/ MatchInfix(s, <<"t", "e", "s", "t">>)
        \/ MatchInfix(s, <<"s", "p", "e", "c">>)
        \/ MatchTestPrefix(s)
        \/ MatchTestSuffix(s)
        \/ MatchDotTest(s)
        \/ MatchDotSpec(s)

\* is_test_file(file_path, file_name); path_parts = file_path.split(os.sep)
IsTestFile(path_parts, file_name) ==
    \/ \E k \in 1..Len(path_parts) : MatchesTestPattern(path_parts[k])
    \/ MatchesTestPattern(file_name)

-----------------------------------------------------------------------------
(* COMMENT_PATTERNS and get_comment_pattern. A pattern holding ".*?" is a    *)
(* block pattern OPEN.*?CLOSE; the others are line patterns START.* .        *)

LinePattern(start) == [kind |-> "line", start |-> start]
BlockPattern(open, close) == [kind |-> "block", open |-> open, close |-> close]

SlashGroup ==
    { <<"j", "s">>, <<"j", "s", "x">>, <<"t", "s">>, <<"t", "s", "x">>, <<"j", "a", "v", "a">>, <<"c">>, <<"c", "p", "p">>, <<"h">>, <<"h", "p", "p">>, <<"c", "s">>,
      <<"g", "o">>, <<"p", "h", "p">>, <<"s", "w", "i", "f", "t">>, <<"k", "t">>, <<"r", "s">>, <<"s", "c", "a", "l", "a">>, <<"d", "a", "r", "t">> }

\* str.lstrip('.')
RECURSIVE LStripDots(_)
LStripDots(s) == IF s # <<>> /\ Head(s) = "." THEN LStripDots(Tail(s)) ELSE s

\* get_comment_pattern(file_ext): the first key of COMMENT_PATTERNS matching the
\* extension whole, else []
GetCommentPattern(file_ext) ==
    LET ext == LStripDots(file_ext)
    IN  IF ext = <<"p", "y">>
        THEN << LinePattern(<<"#">>), BlockPattern(<<"\"", "\"", "\"">>, <<"\"", "\"", "\"">>),
                BlockPattern(<<"'", "'", "'">>, <<"'", "'", "'">>) >>
        ELSE IF ext \in SlashGroup
        THEN << LinePattern(<<"/", "/">>), BlockPattern(<<"/", "*">>, <<"*", "/">>) >>
        ELSE IF ext = <<"r", "b">>
        THEN << LinePattern(<<"#">>), BlockPattern(<<"=", "b", "e", "g", "i", "n">>, <<"=", "e", "n", "d">>) >>
        ELSE IF ext = <<"h", "t", "m", "l">>
        THEN << BlockPattern(<<"<", "!", "-", "-">>, <<"-", "-", ">">>) >>
        ELSE IF ext \in { <<"c", "s", "s">>, <<"s", "c", "s", "s">>, <<"s", "a", "s", "s">>, <<"l", "e", "s", "s">> }
        THEN << BlockPattern(<<"/", "*">>, <<"*", "/">>), LinePattern(<<"/", "/">>) >>
        ELSE IF ext = <<"s", "h">>
        THEN << LinePattern(<<"#">>) >>
        ELSE << >>

-----------------------------------------------------------------------------
(* remove_comments                                                           *)

\* re.sub(OPEN.*?CLOSE, '', s, flags=re.DOTALL) from index i on: the leftmost
\* OPEN that has a CLOSE after it is deleted up to the nearest such CLOSE
RECURSIVE SubBlockFrom(_, _, _, _)
SubBlockFrom(s, i, open, close) ==
    IF i > Len(s) THEN <<>>
    ELSE LET ends == { j \in (i + Len(open))..Len(s) : StartsAt(s, j, close) }
         IN  IF StartsAt(s, i, open) /\ ends # {}
             THEN SubBlockFrom(s, (CHOOSE j \in ends : \A m \in ends : j <= m) + Len(close),
                               open, close)
             ELSE <<s[i]>> \o SubBlockFrom(s, i + 1, open, close)

\* the first loop of remove_comments: every block pattern, in list order
RECURSIVE StripBlocks(_, _)
StripBlocks(content, patterns) ==
    IF patterns = <<>> THEN content
    ELSE StripBlocks(IF Head(patterns).kind = "block"
                     THEN SubBlockFrom(content, 1, Head(patterns).open, Head(patterns).close)
                     ELSE content,
                     Tail(patterns))

\* re.match('^START.*$', line_stripped): a line holds no newline, so ".*$" matches
IsCommentLine(line_stripped, patterns) ==
    \E k \in 1..Len(patterns) :
        patterns[k].kind = "line" /\ StartsAt(line_stripped, 1, patterns[k].start)

\* re.sub(START.*, '', line): everything from the first START on is cut
CutAt(line, start) ==
    LET hits == { i \in 1..Len(line) : StartsAt(line, i, start) }
    IN  IF hits = {} THEN line
        ELSE SubSeq(line, 1, (CHOOSE i \in hits : \A m \in hits : i <= m) - 1)

RECURSIVE CutInline(_, _)
CutInline(line, patterns) ==
    IF patterns = <<>> THEN line
    ELSE CutInline(IF Head(patterns).kind = "line" THEN CutAt(line, Head(patterns).start)
                   ELSE line,
                   Tail(patterns))

\* the second loop of remove_comments: result_lines
RECURSIVE ScanLines(_, _)
ScanLines(lines, patterns) ==
    IF lines = <<>> THEN <<>>
    ELSE LET line == Head(lines)
             rest == ScanLines(Tail(lines), patterns)
         IN  IF Strip(line) = <<>> THEN rest
             ELSE IF IsCommentLine(Strip(line), patterns) THEN rest
             ELSE IF Strip(CutInline(line, patterns)) # <<>>
                  THEN <<CutInline(line, patterns)>> \o rest
                  ELSE rest

ResultLines(content, file_ext) ==
    ScanLines(Split(StripBlocks(content, GetCommentPattern(file_ext)), "\n"),
              GetCommentPattern(file_ext))

RemoveComments(content, file_ext) == Join(ResultLines(content, file_ext), <<"\n">>)

-----------------------------------------------------------------------------
(* count_tokens, is_binary_file, analyze_file                                *)

\* The tokenizer (tiktoken, cl100k_base) is an external library: it is stood in
\* for by a deterministic function of the text, the number of whitespace-separated
\* words. No property below depends on which function it is.
RECURSIVE WordsFrom(_, _, _)
WordsFrom(s, i, inWord) ==
    IF i > Len(s) THEN 0
    ELSE IF s[i] \in Whitespace THEN WordsFrom(s, i + 1, FALSE)
    ELSE (IF inWord THEN 0 ELSE 1) + WordsFrom(s, i + 1, TRUE)

CountTokens(text) == WordsFrom(text, 1, FALSE)

\* f.read(1024)
ChunkSize == 1024

\* a file is [name, readable, content]; the NUL byte is the element "NUL"
IsBinaryFile(file) ==
    IF ~file.readable THEN TRUE
    ELSE \E i \in 1..Len(file.content) : i <= ChunkSize /\ file.content[i] = "NUL"

\* os.path.splitext(name)[1].lower(): from the last dot on, unless that dot
\* belongs to the leading dots of the name
SplitExt(name) ==
    LET dots == { i \in 1..Len(name) : name[i] = "." /\ \E k \in 1..(i - 1) : name[k] # "." }
    IN  IF dots = {} THEN <<>>
        ELSE LowerAll(SubSeq(name, CHOOSE i \in dots : \A m \in dots : m <= i, Len(name)))

\* a faulty variant of analyze_file: the binary test is left out
AnalyzeAnyFile(file) ==
    [loc |-> Len(Split(RemoveComments(file.content, SplitExt(file.name)), "\n")),
     tokens |-> CountTokens(file.content)]

\* analyze_file: (loc, token_count)
AnalyzeFile(file) ==
    IF IsBinaryFile(file) THEN [loc |-> 0, tokens |-> 0]
    ELSE [loc |-> Len(Split(RemoveComments(file.content, SplitExt(file.name)), "\n")),
          tokens |-> CountTokens(file.content)]

-----------------------------------------------------------------------------
(* analyze_project: the fold of one file record into its category            *)

DEFAULT_EXTENSIONS ==
    { <<".", "p", "y">>, <<".", "j", "s">>, <<".", "j", "s", "x">>, <<".", "t", "s">>, <<".", "t", "s", "x">>, <<".", "j", "a", "v", "a">>, <<".", "c">>, <<".", "c", "p", "p">>, <<".", "h">>,
      <<".", "h", "p", "p">>, <<".", "c", "s">>, <<".", "g", "o">>, <<".", "r", "b">>, <<".", "p", "h", "p">>, <<".", "s", "w", "i", "f", "t">>, <<".", "k", "t">>, <<".", "r", "s">>,
      <<".", "s", "c", "a", "l", "a">>, <<".", "s", "h">>, <<".", "h", "t", "m", "l">>, <<".", "c", "s", "s">>, <<".", "s", "c", "s", "s">>, <<".", "s", "a", "s", "s">>, <<".", "l", "e", "s", "s">>,
      <<".", "j", "s", "o", "n">>, <<".", "y", "m", "l">>, <<".", "y", "a", "m", "l">>, <<".", "m", "d">>, <<".", "d", "a", "r", "t">> }

exclude_dirs ==
    { <<".", "g", "i", "t">>, <<"n", "o", "d", "e", "_", "m", "o", "d", "u", "l", "e", "s">>, <<"v", "e", "n", "v">>, <<".", "v", "e", "n", "v">>, <<"e", "n", "v">>, <<".", "e", "n", "v">>, <<"d", "i", "s", "t">>,
      <<"b", "u", "i", "l", "d">>, <<"t", "a", "r", "g", "e", "t">>, <<"o", "u", "t">>, <<"b", "i", "n">>, <<"o", "b", "j">> }

Categories == {"production", "test"}

\* top_files[:10]
TopN == 10

EmptyStats ==
    [total_files |-> 0, total_loc |-> 0, total_tokens |-> 0,
     stats_by_ext |-> <<>>, top_files |-> <<>>]

\* stats_by_ext is a defaultdict: a missing extension reads as zeros
ExtEntry(by_ext, ext) ==
    IF ext \in DOMAIN by_ext THEN by_ext[ext] ELSE [files |-> 0, loc |-> 0, tokens |-> 0]

\* a faulty variant of the per-extension update: the entry is overwritten with the
\* file's figures instead of being added to
SetExt(by_ext, ext, loc, tokens) ==
    [e \in DOMAIN by_ext \cup {ext} |->
        IF e = ext THEN [files |-> 1, loc |-> loc, tokens |-> tokens] ELSE by_ext[e]]

AddToExt(by_ext, ext, loc, tokens) ==
    [e \in DOMAIN by_ext \cup {ext} |->
        IF e = ext
        THEN [files |-> ExtEntry(by_ext, ext).files + 1,
              loc |-> ExtEntry(by_ext, ext).loc + loc,
              tokens |-> ExtEntry(by_ext, ext).tokens + tokens]
        ELSE by_ext[e]]

\* a faulty variant of the sort: an entry goes in front of the entries with the
\* same token count, as an unstable sort may put it
InsertBeforeTies(sorted, entry) ==
    LET ahead == { i \in 1..Len(sorted) : sorted[i][2] > entry[2] }
    IN  SubSeq(sorted, 1, Cardinality(ahead)) \o <<entry>>
            \o SubSeq(sorted, Cardinality(ahead) + 1, Len(sorted))

\* where a stable descending sort puts an entry that came after those of `sorted`:
\* behind every entry whose token count is at least its own
InsertDesc(sorted, entry) ==
    LET ahead == { i \in 1..Len(sorted) : sorted[i][2] >= entry[2] }
    IN  SubSeq(sorted, 1, Cardinality(ahead)) \o <<entry>>
            \o SubSeq(sorted, Cardinality(ahead) + 1, Len(sorted))

\* list.sort(key=lambda x: x[1], reverse=True): stable, descending by x[1]
RECURSIVE SortDesc(_)
SortDesc(entries) ==
    IF entries = <<>> THEN <<>>
    ELSE InsertDesc(SortDesc(SubSeq(entries, 1, Len(entries) - 1)), Last(entries))

\* s[:n]
Take(s, n) == SubSeq(s, 1, IF Len(s) < n THEN Len(s) ELSE n)

\* the statements under "if loc > 0" for one category's accumulator
Fold(cs, file_ext, rel_path, loc, tokens) ==
    [total_files |-> cs.total_files + 1,
     total_loc |-> cs.total_loc + loc,
     total_tokens |-> cs.total_tokens + tokens,
     stats_by_ext |-> AddToExt(cs.stats_by_ext, file_ext, loc, tokens),
     top_files |-> Take(SortDesc(Append(cs.top_files, <<rel_path, tokens, loc>>)), TopN)]

-----------------------------------------------------------------------------
(* Bounds and input sets                                                     *)

MaxMarkers == 2       \* files lying in the project root
MaxDepth == 2         \* directories above a classified file
MaxContentLen == 4    \* length of the generated file contents
MaxRankFiles == 12    \* files yielded by the walk of the ranking tree
MaxMixedFiles == 3    \* files yielded by the walk of the mixed tree
MaxRootFiles == 3     \* files yielded by the walk of the tree placed under several parents

Missing == [kind |-> "missing", lines |-> <<>>]

RootNames ==
    { <<"p", "a", "c", "k", "a", "g", "e", ".", "j", "s", "o", "n">>, <<"r", "e", "q", "u", "i", "r", "e", "m", "e", "n", "t", "s", ".", "t", "x", "t">>, <<"s", "e", "t", "u", "p", ".", "p", "y">>, <<"p", "o", "m", ".", "x", "m", "l">>, <<"b", "u", "i", "l", "d", ".", "g", "r", "a", "d", "l", "e">>,
      <<"a", "p", "p", ".", "c", "s", "p", "r", "o", "j">>, <<"a", "p", "p", ".", "s", "l", "n">>, <<"R", "E", "A", "D", "M", "E", ".", "m", "d">> }

RootListings == { S \in SUBSET RootNames : Cardinality(S) <= MaxMarkers }

Overrides ==
    { Missing,
      [kind |-> "unreadable", lines |-> <<>>],
      [kind |-> "file", lines |-> <<>>],
      [kind |-> "file", lines |-> << <<"#", " ", "g", "e", "n", "e", "r", "a", "t", "e", "d">>, <<>>, <<"d", "o", "c", "s", "/", "*">> >>],
      [kind |-> "file", lines |-> << <<" ", " ", "*", ".", "g", "e", "n", ".", "p", "y", " ", " ">>, <<"d", "i", "s", "t", "/", "*">> >>] }

ProjectPaths == { << <<"h", "o", "m", "e">>, <<"p", "r", "o", "j">> >>, << <<"t", "e", "s", "t", "s">>, <<"p", "r", "o", "j">> >>, << <<"d", "i", "s", "t">>, <<"p", "r", "o", "j">> >> }

IgnoreFiles ==
    { << <<"d", "i", "s", "t">>, <<"b", "u", "n", "d", "l", "e", ".", "j", "s">> >>, << <<"a", "p", "p", ".", "m", "i", "n", ".", "j", "s">> >>, << <<"s", "r", "c">>, <<"a", "p", "p", ".", "m", "i", "n", ".", "j", "s">> >>,
      << <<"s", "r", "c">>, <<"l", "i", "b">>, <<"a", "p", "p", ".", "m", "i", "n", ".", "j", "s">> >>, << <<"s", "r", "c">>, <<"m", "a", "i", "n", ".", "p", "y">> >>,
      << <<"d", "o", "c", "s">>, <<"g", "u", "i", "d", "e", ".", "m", "d">> >>, << <<"s", "r", "c">>, <<"d", "i", "s", "t">>, <<"b", "u", "n", "d", "l", "e", ".", "j", "s">> >>,
      << <<"D", "e", "b", "u", "g">>, <<"a", ".", "c", "s">> >>, << <<"s", "r", "c">>, <<"m", ".", "g", "e", "n", ".", "p", "y">> >>, << <<"w", "e", "b">>, <<"d", "i", "s", "t", ".", "j", "s">> >>,
      << <<"l", "i", "b", "6", "4">>, <<"x", ".", "p", "y">> >>, << <<"s", "r", "c">>, <<"m", "i", "n", ".", "j", "s">> >>, << <<"s", "r", "c">>, <<"T", "h", "u", "m", "b", "s", ".", "d", "b">> >>,
      << <<"w", "e", "b">>, <<"p", "a", "c", "k", "a", "g", "e", "-", "l", "o", "c", "k", ".", "j", "s", "o", "n">> >> }

DirNames ==
    { <<"s", "r", "c">>, <<"t", "e", "s", "t", "s">>, <<"T", "e", "s", "t", "s">>, <<"T", "E", "S", "T">>, <<"s", "p", "e", "c">>, <<"S", "p", "e", "c", "s">>, <<"c", "o", "n", "t", "e", "s", "t", "s">>, <<"l", "a", "t", "e", "s", "t">>,
      <<"_", "_", "t", "e", "s", "t", "s", "_", "_">>, <<"_", "_", "t", "e", "s", "t", "_", "_">>, <<"_", "_", "t", "e", "s", "t", "s", "_", "_", "u", "t", "i", "l">>, <<"m", "y", "-", "t", "e", "s", "t", "s", "-", "x">>, <<"a", ".", "s", "p", "e", "c", ".", "b">>,
      <<"t", "e", "s", "t", "_", "v", "1", ".", "0">>, <<"t", "e", "s", "t", "_", "d", "a", "t", "a">>, <<"i", "n", "s", "p", "e", "c", "t">>, <<"t", "e", "s", "t", "i", "n", "g">>, <<"v", "1", ".", "0">> }

FileNames ==
    { <<"u", "t", "i", "l", "s", ".", "g", "o">>, <<"u", "t", "i", "l", "s", "_", "t", "e", "s", "t", ".", "g", "o">>, <<"t", "e", "s", "t", "_", "u", "t", "i", "l", "s", ".", "p", "y">>, <<"m", "a", "i", "n", ".", "p", "y">>, <<"a", "p", "p", ".", "s", "p", "e", "c", ".", "t", "s">>,
      <<"a", "p", "p", ".", "t", "e", "s", "t", ".", "j", "s">>, <<"c", "o", "n", "t", "e", "s", "t", ".", "p", "y">>, <<"t", "e", "s", "t", "i", "n", "g", ".", "p", "y">>, <<"t", "e", "s", "t", "s", ".", "p", "y">>, <<"a", "_", "t", "e", "s", "t", ".", "m", "i", "n", ".", "j", "s">>,
      <<"T", "e", "s", "t", "_", "A", ".", "P", "Y">>, <<"m", "y", "t", "e", "s", "t", "_", "x", ".", "p", "y">> }

ClassifyPaths ==
    { dirs \o <<name>> :
        dirs \in UNION { [1..n -> DirNames] : n \in 0..MaxDepth }, name \in FileNames }

ContentAlphabet == {"a", "/", "*", "#", " ", "\n"}

GenContents == UNION { [1..n -> ContentAlphabet] : n \in 0..MaxContentLen }

GenNames == { <<"m", ".", "j", "s">>, <<"m", ".", "s", "h">>, <<"m", ".", "m", "d">>, <<"m", ".", "t", "x", "t">> }

TextFile(name, content) == [name |-> name, readable |-> TRUE, content |-> content]

CuratedFiles ==
    { TextFile(<<"m", ".", "j", "s">>, <<"a", "(", ")", ";", "\n", "/", "/", " ", "c", "o", "m", "m", "e", "n", "t", "\n", "b", "(", ")", ";", "\n">>),
      TextFile(<<"m", ".", "j", "s">>, <<"/", "*", "\n", "\n", "*", "/">>),
      TextFile(<<"m", ".", "j", "s">>, <<"/", "*", "\n", "\n", "*", "/", "\n">>),
      TextFile(<<"m", ".", "j", "s">>, <<"a", "(", ")", ";", "\n", "/", "*", " ", "x", "\n", "y", "\n", "z", " ", "*", "/", "\n", "b", "(", ")", ";", "\n">>),
      TextFile(<<"m", ".", "j", "s">>, <<"a", "(", ")", ";", " ", "/", "*", " ", "x", "\n", "\n", "y", " ", "*", "/", " ", "b", "(", ")", ";">>),
      TextFile(<<"m", ".", "j", "s">>, <<"a", "(", ")", ";", " ", "/", "/", " ", "x", " ", "/", "*", " ", "y", "\n", "b", "(", ")", ";", " ", "*", "/", " ", "c", "(", ")", ";", "\n">>),
      TextFile(<<"m", ".", "c", "s", "s">>, <<"a", " ", "{", "\n", "/", "*", " ", "x", " ", "*", "/", "\n", "}", "\n">>),
      TextFile(<<"m", ".", "p", "y">>, <<"x", " ", "=", " ", "1", " ", " ", "#", " ", "c", "\n", "\"", "\"", "\"", "d", "o", "c", "\n", "m", "o", "r", "e", "\n", "\"", "\"", "\"", "\n", "y", " ", "=", " ", "2", "\n">>),
      TextFile(<<"m", ".", "r", "b">>, <<"=", "b", "e", "g", "i", "n", "\n", "x", "\n", "=", "e", "n", "d", "\n", "#", " ", "c", "\n">>),
      TextFile(<<"m", ".", "h", "t", "m", "l">>, <<"<", "!", "-", "-", " ", "a", "\n", "b", " ", "-", "-", ">", "\n", "<", "p", ">", "\n">>),
      TextFile(<<"m", ".", "j", "s", "o", "n">>, <<"{", "\n", "\n", "}", "\n">>),
      TextFile(<<"m", ".", "y", "a", "m", "l">>, <<"\n", " ", "\n">>),
      TextFile(<<"M", ".", "J", "S">>, <<"/", "/", " ", "c", "\n">>),
      TextFile(<<"m", ".", "j", "s">>, <<"a">> \o <<"NUL">> \o <<"b", "\n">>),
      [name |-> <<"m", ".", "j", "s">>, readable |-> FALSE, content |-> <<"a", "\n">>],
      [name |-> <<"m", ".", "m", "d">>, readable |-> FALSE, content |-> <<>>] }

AnalyzedFiles ==
    { TextFile(name, content) : name \in GenNames, content \in GenContents } \cup CuratedFiles

\* the walk: the directories below the root and, per step, the files it may yield
WalkDirs == { << <<"s", "r", "c">> >>, << <<"t", "e", "s", "t", "s">> >>, << <<"b", "u", "i", "l", "d">> >>, << <<".", "c", "a", "c", "h", "e">> >> }

StepIds == <<"a", "b", "c", "d", "e", "f", "g", "h", "i", "j", "k", "l", "m", "n", "o", "p">>

StepName(stem, i, suffix) == stem \o <<StepIds[i]>> \o suffix

\* the ranking tree: many files, all counted; those under src vary in token count,
\* those under tests all tie
RankContents(dir) == IF dir = << <<"t", "e", "s", "t", "s">> >> THEN { <<"a", "\n">> } ELSE { <<"a", "\n">>, <<"a", " ", "a", "\n">> }

MixedFiles(i) ==
    { TextFile(StepName(<<"m">>, i, <<".", "p", "y">>), <<"a", "\n">>),
      TextFile(StepName(<<"m">>, i, <<".", "p", "y">>), <<>>),
      TextFile(StepName(<<"m">>, i, <<".", "p", "y">>), <<"#", " ", "c", "\n", "\n">>),
      TextFile(StepName(<<"m">>, i, <<".", "p", "y">>), <<"NUL">> \o <<"a", "\n">>),
      [name |-> StepName(<<"m">>, i, <<".", "p", "y">>), readable |-> FALSE, content |-> <<"a", "\n">>],
      TextFile(StepName(<<"m">>, i, <<"_", "t", "e", "s", "t", ".", "p", "y">>), <<"a", "\n", "a", " ", "a", "\n">>),
      TextFile(StepName(<<"m">>, i, <<".", "m", "d">>), <<"#", " ", "c", "\n">>),
      TextFile(StepName(<<"m">>, i, <<".", "l", "o", "g">>), <<"a", "\n">>),
      TextFile(StepName(<<"m">>, i, <<".", "t", "x", "t">>), <<"a", "\n">>) }

WalkFiles(t, dir, i) ==
    IF t = "rank"
    THEN { TextFile(StepName(<<"m">>, i, <<".", "p", "y">>), content) : content \in RankContents(dir) }
    ELSE IF t = "roots"
    THEN { TextFile(StepName(<<"m", "a", "i", "n">>, i, <<".", "p", "y">>), <<"a", "\n">>),
           TextFile(StepName(<<"m", "a", "i", "n">>, i, <<"_", "t", "e", "s", "t", ".", "p", "y">>), <<"a", "\n">>) }
    ELSE MixedFiles(i)

MaxFiles(t) ==
    IF t = "rank" THEN MaxRankFiles ELSE IF t = "roots" THEN MaxRootFiles ELSE MaxMixedFiles

NoFile == [name |-> <<>>, readable |-> TRUE, content |-> <<>>]

-----------------------------------------------------------------------------
(* Initial states                                                            *)

IgnoreIdle ==
    /\ root_files = {}
    /\ override = Missing
    /\ ignore_patterns = LoadedPatterns({}, Missing)
    /\ load_pc = "loaded"
    /\ ig_file = <<>>
    /\ ig_result = FALSE

ClassifyIdle == cl_path = <<>> /\ cl_result = FALSE /\ cl_pc = "done"

FileIdle == af_file = NoFile /\ af_loc = 0 /\ af_tokens = 0 /\ af_pc = "done"

WalkIdle ==
    /\ tree = "none"
    /\ stats = [c \in Categories |-> EmptyStats]
    /\ folded = [c \in Categories |-> <<>>]
    /\ root_dir = <<>>
    /\ dirs_left = {}
    /\ outcomes = <<>>
    /\ last = NoFile

InitIgnore ==
    /\ root_files \in RootListings
    /\ override \in Overrides
    /\ ignore_patterns = {}
    /\ load_pc = "start"
    /\ ig_file = <<>>
    /\ ig_result = FALSE
    /\ project_path \in ProjectPaths
    /\ ClassifyIdle /\ FileIdle /\ WalkIdle

InitClassify ==
    /\ cl_path \in ClassifyPaths
    /\ cl_result = FALSE
    /\ cl_pc = "start"
    /\ project_path = <<>>
    /\ IgnoreIdle /\ FileIdle /\ WalkIdle

InitFile ==
    /\ af_file \in AnalyzedFiles
    /\ af_loc = 0
    /\ af_tokens = 0
    /\ af_pc = "start"
    /\ project_path = <<>>
    /\ IgnoreIdle /\ ClassifyIdle /\ WalkIdle

InitWalk(t, paths) ==
    /\ tree = t
    /\ project_path \in paths
    /\ stats = [c \in Categories |-> EmptyStats]
    /\ folded = [c \in Categories |-> <<>>]
    /\ root_dir = <<>>
    /\ dirs_left = WalkDirs
    /\ outcomes = <<>>
    /\ last = NoFile
    /\ IgnoreIdle /\ ClassifyIdle /\ FileIdle

InitRank == InitWalk("rank", { << <<"h", "o", "m", "e">>, <<"p", "r", "o", "j">> >> })

InitRoots == InitWalk("roots", ProjectPaths)

Init == InitWalk("mixed", { << <<"h", "o", "m", "e">>, <<"p", "r", "o", "j">> >> })

-----------------------------------------------------------------------------
(* Actions                                                                   *)

\* load_ignore_patterns(project_path)
LoadIgnorePatterns ==
    /\ load_pc = "start"
    /\ IF LoadRaises(override)
       THEN load_pc' = "raised" /\ UNCHANGED ignore_patterns
       ELSE load_pc' = "loaded" /\ ignore_patterns' = LoadedPatterns(root_files, override)
    /\ UNCHANGED <<root_files, override, ig_file, ig_result, project_path>>
    /\ UNCHANGED <<classifyVars, fileVars, walkVars>>

\* should_ignore_file(file_path, project_path, ignore_patterns)
CheckIgnore ==
    /\ load_pc = "loaded"
    /\ \E rel \in IgnoreFiles :
        /\ ig_file' = rel
        /\ ig_result' = ShouldIgnoreFile(project_path \o rel, project_path, ignore_patterns)
    /\ load_pc' = "checked"
    /\ UNCHANGED <<root_files, override, ignore_patterns, project_path>>
    /\ UNCHANGED <<classifyVars, fileVars, walkVars>>

\* is_test_file(file_path, file)
Classify ==
    /\ cl_pc = "start"
    /\ cl_result' = IsTestFile(cl_path, Last(cl_path))
    /\ cl_pc' = "done"
    /\ UNCHANGED <<cl_path, project_path, ignoreVars, fileVars, walkVars>>

\* analyze_file(file_path)
Analyze ==
    /\ af_pc = "start"
    /\ af_loc' = AnalyzeFile(af_file).loc
    /\ af_tokens' = AnalyzeFile(af_file).tokens
    /\ af_pc' = "done"
    /\ UNCHANGED <<af_file, project_path, ignoreVars, classifyVars, walkVars>>

\* os.walk yields the next directory; the pruned ones (exclude_dirs, dot names)
\* are never entered
WalkDir ==
    /\ tree # "none"
    /\ \E d \in dirs_left :
        /\ Last(d) \notin exclude_dirs
        /\ Head(Last(d)) # "."
        /\ root_dir' = d
        /\ dirs_left' = dirs_left \ {d}
    /\ UNCHANGED <<tree, project_path, stats, folded, outcomes, last>>
    /\ UNCHANGED <<ignoreVars, classifyVars, fileVars>>

\* what the body of "for file in files" does with one file of root_dir, loc being
\* what analyze_file returns for it
Outcome(file, loc) ==
    LET file_path == project_path \o root_dir \o <<file.name>>
    IN  IF ShouldIgnoreFile(file_path, project_path, ignore_patterns) THEN "ignored"
        ELSE IF SplitExt(file.name) \notin DEFAULT_EXTENSIONS THEN "out_of_scope"
        ELSE IF loc > 0 THEN "counted"
        ELSE "skipped"

\* is_test = is_test_file(file_path, file); category = 'test' if is_test else 'production'
CategoryOf(file) ==
    IF IsTestFile(project_path \o root_dir \o <<file.name>>, file.name)
    THEN "test" ELSE "production"

\* rel_path = os.path.relpath(file_path, project_path)
RelPath(file) ==
    Join(RelParts(project_path \o root_dir \o <<file.name>>, project_path), <<"/">>)

\* one iteration of "for file in files" of analyze_project
VisitFile ==
    /\ tree # "none"
    /\ root_dir # <<>>
    /\ Len(outcomes) < MaxFiles(tree)
    /\ \E file \in WalkFiles(tree, root_dir, Len(outcomes) + 1) :
        LET analysed == AnalyzeFile(file)
            outcome == Outcome(file, analysed.loc)
            category == CategoryOf(file)
            file_ext == SplitExt(file.name)
            rel_path == RelPath(file)
        IN  /\ last' = file
            /\ outcomes' = Append(outcomes, outcome)
            /\ IF outcome = "counted"
               THEN /\ stats' = [stats EXCEPT ![category] =
                                    Fold(@, file_ext, rel_path, analysed.loc, analysed.tokens)]
                    /\ folded' = [folded EXCEPT ![category] =
                                    Append(@, [rel_path |-> rel_path, ext |-> file_ext,
                                               loc |-> analysed.loc,
                                               tokens |-> analysed.tokens])]
               ELSE UNCHANGED <<stats, folded>>
    /\ UNCHANGED <<tree, project_path, root_dir, dirs_left>>
    /\ UNCHANGED <<ignoreVars, classifyVars, fileVars>>

-----------------------------------------------------------------------------
(* Specifications                                                            *)

NextIgnore == LoadIgnorePatterns \/ CheckIgnore
SpecIgnore == InitIgnore /\ [][NextIgnore]_vars

SpecClassify == InitClassify /\ [][Classify]_vars

SpecFile == InitFile /\ [][Analyze]_vars

Next == WalkDir \/ VisitFile
SpecRank == InitRank /\ [][Next]_vars
SpecRoots == InitRoots /\ [][Next]_vars
Spec == Init /\ [][Next]_vars

-----------------------------------------------------------------------------
(* Properties                                                                *)

Min(a, b) == IF a < b THEN a ELSE b

\* the sum of the numbers of a sequence
RECURSIVE Sum(_)
Sum(nums) == IF nums = <<>> THEN 0 ELSE Head(nums) + Sum(Tail(nums))

\* the sum of f[k] over the keys k
RECURSIVE SumOver(_, _)
SumOver(f, keys) ==
    IF keys = {} THEN 0
    ELSE LET k == CHOOSE x \in keys : TRUE
         IN  f[k] + SumOver(f, keys \ {k})

Locs(records) == [i \in 1..Len(records) |-> records[i].loc]
Tokens(records) == [i \in 1..Len(records) |-> records[i].tokens]

\* record i of a history ranks before record j: more tokens, or as many and met earlier
RanksBefore(history, i, j) ==
    \/ history[i].tokens > history[j].tokens
    \/ (history[i].tokens = history[j].tokens /\ i < j)

\* top is the first min(TopN, n) records of history in the order RanksBefore
IsTopOf(top, history) ==
    /\ Len(top) = Min(TopN, Len(history))
    /\ \A k \in 1..Len(top) :
         \E i \in 1..Len(history) :
            top[k] = <<history[i].rel_path, history[i].tokens, history[i].loc>>
    /\ LET pos == [k \in 1..Len(top) |->
                    CHOOSE i \in 1..Len(history) : history[i].rel_path = top[k][1]]
       IN  /\ \A k, l \in 1..Len(top) : k < l => RanksBefore(history, pos[k], pos[l])
           /\ \A j \in 1..Len(history) :
                (\A k \in 1..Len(top) : pos[k] # j)
                    => \A k \in 1..Len(top) : RanksBefore(history, pos[k], j)

\* C1: after every fold, each category's top_files is exactly the first min(10, n)
\* records of the stable descending-by-token-count order of the n records folded
\* into it so far: at most 10 entries, descending, ties in encounter order
C1_TopFilesAreStableTop ==
    \A c \in Categories :
        /\ IsTopOf(stats[c].top_files, folded[c])
        /\ Len(stats[c].top_files) <= 10
        /\ \A k \in 1..(Len(stats[c].top_files) - 1) :
             stats[c].top_files[k][2] >= stats[c].top_files[k + 1][2]

\* more than ten records went into production; the first one met had the lower
\* token count, so later records overtook it and the list was cut
C1_Witness ==
    /\ Len(folded["production"]) > TopN
    /\ folded["production"][1].tokens = 1
    /\ stats["production"].top_files[1][2] = 2
    /\ stats["production"].top_files[TopN][2] = 1
    /\ Len(folded["test"]) >= 1

\* The classification rule as the specification words it. (a): a path segment is
\* one of the test directory names or carries a separator-delimited test/spec
\* infix; (b): the bare file name starts with test_, ends with _test.<ext>, or
\* contains .test. or .spec.
ClaimedTestSegment(part) ==
    LET s == LowerAll(part)
    IN  \/ s \in { <<"t", "e", "s", "t">>, <<"t", "e", "s", "t", "s">>, <<"s", "p", "e", "c">>, <<"s", "p", "e", "c", "s">>, <<"_", "_", "t", "e", "s", "t", "_", "_">>, <<"_", "_", "t", "e", "s", "t", "s", "_", "_">> }
        \/ \E i \in 1..Len(s) :
             /\ s[i] \in Separators
             /\ \E word \in { <<"t", "e", "s", "t">>, <<"t", "e", "s", "t", "s">>, <<"s", "p", "e", "c">>, <<"s", "p", "e", "c", "s">> } :
                  /\ StartsAt(s, i + 1, word)
                  /\ i + Len(word) + 1 <= Len(s)
                  /\ s[i + Len(word) + 1] \in Separators

ClaimedTestName(file_name) ==
    LET s == LowerAll(file_name)
    IN  \/ StartsAt(s, 1, <<"t", "e", "s", "t", "_">>)
        \/ \E i \in 1..Len(s) : StartsAt(s, i, <<"_", "t", "e", "s", "t", ".">>) /\ i + 6 <= Len(s)
        \/ \E i \in 1..Len(s) : StartsAt(s, i, <<".", "t", "e", "s", "t", ".">>) \/ StartsAt(s, i, <<".", "s", "p", "e", "c", ".">>)

ClaimedTest(path_parts, file_name) ==
    \/ \E k \in 1..Len(path_parts) : ClaimedTestSegment(path_parts[k])
    \/ ClaimedTestName(file_name)

\* C2: is_test_file says test exactly when (a) or (b) of the claim holds, and
\* production in every other case
C2_ClassifiedAsClaimed ==
    cl_pc = "done" => (cl_result = ClaimedTest(cl_path, Last(cl_path)))

\* number of lines of the content that are not blank
NonBlankLines(content) ==
    Cardinality({ i \in 1..Len(Split(content, "\n")) : Strip(Split(content, "\n")[i]) # <<>> })

AnalyzedAsText == af_pc = "done" /\ ~IsBinaryFile(af_file)

\* C3: with an empty comment-rule list the loc analyze_file returns is the number
\* of non-blank lines of the content, empty and all-blank contents included
C3_LocIsNonBlankLines ==
    (AnalyzedAsText /\ GetCommentPattern(SplitExt(af_file.name)) = <<>>)
        => af_loc = NonBlankLines(af_file.content)

\* C4: a step of the walk that yields a binary or unreadable file leaves every
\* counter, every per-extension entry and both top_files lists as they were,
\* records the file as skipped and not as an error, and leaves the walk able to
\* yield the next file
C4_BinaryFileSkipped ==
    [][(Len(outcomes') = Len(outcomes) + 1 /\ IsBinaryFile(last'))
         => /\ stats' = stats
            /\ folded' = folded
            /\ outcomes'[Len(outcomes')] \in {"skipped", "ignored"}
            /\ tree' = tree /\ root_dir' = root_dir /\ dirs_left' = dirs_left]_vars

\* a binary file was skipped after one file had been counted, and a later file
\* was counted after it
C4_Witness ==
    \E i, j, k \in 1..Len(outcomes) :
        /\ i < j /\ j < k
        /\ outcomes[i] = "counted" /\ outcomes[j] = "skipped" /\ outcomes[k] = "counted"
        /\ stats["production"].total_files + stats["test"].total_files = 2

\* C5: load_ignore_patterns never raises, and with the override file missing or
\* unreadable it returns the baseline plus the detected bundles
C5_NeverRaises ==
    /\ load_pc # "raised"
    /\ (load_pc \in {"loaded", "checked"} /\ override.kind # "file")
         => ignore_patterns = CommonPatterns \cup DetectedPatterns(root_files)

\* C6: should_ignore_file is true exactly when some pattern matches the path
\* relative to the root or the bare file name; dist/bundle.js is ignored under
\* dist/*, app.min.js is ignored in any directory, and a file no pattern matches
\* in either form is not ignored
C6_IgnoredIffMatched ==
    load_pc = "checked" =>
        /\ ig_result = (\E pattern \in ignore_patterns :
                            \/ Fnmatch(Join(ig_file, <<"/">>), pattern)
                            \/ Fnmatch(Last(ig_file), pattern))
        /\ (ig_file = << <<"d", "i", "s", "t">>, <<"b", "u", "n", "d", "l", "e", ".", "j", "s">> >> /\ <<"d", "i", "s", "t", "/", "*">> \in ignore_patterns)
              => ig_result
        /\ (Last(ig_file) = <<"a", "p", "p", ".", "m", "i", "n", ".", "j", "s">> /\ <<"*", ".", "m", "i", "n", ".", "j", "s">> \in ignore_patterns) => ig_result
        /\ ig_file \in { << <<"s", "r", "c">>, <<"m", "a", "i", "n", ".", "p", "y">> >>, << <<"s", "r", "c">>, <<"m", "i", "n", ".", "j", "s">> >>,
                         << <<"w", "e", "b">>, <<"d", "i", "s", "t", ".", "j", "s">> >> } => ~ig_result
        /\ (ig_file = << <<"s", "r", "c">>, <<"d", "i", "s", "t">>, <<"b", "u", "n", "d", "l", "e", ".", "j", "s">> >>) => ~ig_result

\* app.min.js two directories down was found ignored, by its bare name
C6_Witness ==
    /\ load_pc = "checked"
    /\ ig_file = << <<"s", "r", "c">>, <<"l", "i", "b">>, <<"a", "p", "p", ".", "m", "i", "n", ".", "j", "s">> >>
    /\ ig_result
    /\ project_path = << <<"d", "i", "s", "t">>, <<"p", "r", "o", "j">> >>

\* C7: each category's totals are the count and the sums of loc and tokens over
\* the records folded into it, and the sums over its per-extension map; being
\* sums over the records, they do not depend on the order of folding
C7_TotalsAreSums ==
    \A c \in Categories :
        LET by_ext == stats[c].stats_by_ext
            exts == DOMAIN by_ext
        IN  /\ stats[c].total_files = Len(folded[c])
            /\ stats[c].total_loc = Sum(Locs(folded[c]))
            /\ stats[c].total_tokens = Sum(Tokens(folded[c]))
            /\ stats[c].total_files = SumOver([e \in exts |-> by_ext[e].files], exts)
            /\ stats[c].total_loc = SumOver([e \in exts |-> by_ext[e].loc], exts)
            /\ stats[c].total_tokens = SumOver([e \in exts |-> by_ext[e].tokens], exts)
            /\ \A e \in exts :
                 LET of_ext == SelectSeq(folded[c], LAMBDA r : r.ext = e)
                 IN  /\ by_ext[e].files = Len(of_ext)
                     /\ by_ext[e].loc = Sum(Locs(of_ext))
                     /\ by_ext[e].tokens = Sum(Tokens(of_ext))

\* production holds two files of one extension and one of another
C7_Witness ==
    /\ stats["production"].total_files = 3
    /\ Cardinality(DOMAIN stats["production"].stats_by_ext) = 2
    /\ stats["production"].total_loc >= 3

\* C8: with comment rules the loc analyze_file returns is the number of lines
\* remove_comments kept after deleting block comments and scanning the lines, so
\* that a file holding nothing but a block comment over three lines gives 0
C8_LocIsKeptLines ==
    (AnalyzedAsText /\ GetCommentPattern(SplitExt(af_file.name)) # <<>>)
        => af_loc = Len(ResultLines(af_file.content, SplitExt(af_file.name)))

\* C9: a counted file has at least one line that is neither blank nor a comment
C9_CountedFilesHaveCode ==
    (outcomes # <<>> /\ outcomes[Len(outcomes)] = "counted")
        => Len(ResultLines(last.content, SplitExt(last.name))) >= 1

\* C10: the category of every counted file is the one its path below the
\* analysed root gives it, whatever the directories above the root are called
C10_CategoryFromRelativePath ==
    \A c \in Categories :
        \A i \in 1..Len(folded[c]) :
            LET parts == Split(folded[c][i].rel_path, "/")
            IN  c = (IF IsTestFile(parts, Last(parts)) THEN "test" ELSE "production")

====
